---- MODULE Spec2Model ----
(***************************************************************************)
(* Network-Latency-Analyzer: the browser run loop of                      *)
(* EnhancedNetworkAnalyzer (src/unnamed/part_000, main-enhanced.js) and    *)
(* the monitoring sessions of the backend (src/backend/server.js).         *)
(*                                                                         *)
(* JavaScript runs every handler to its next await without interruption,   *)
(* so one action is one such run: a click handler, the continuation of a   *)
(* resolved fetch, a timer callback, the receipt of a WebSocket message.   *)
(* NetworkAnalyzer (v1.1, the first class of part_000) is the same loop    *)
(* with useBackend = FALSE and no WebSocket.                               *)
(*                                                                         *)
(* Specifications: Spec (the run loop and one connection), ServerSpec      *)
(* (the sessions of two connections), CompareSpec and CompareLiveSpec (the *)
(* DNS comparison, the second with the fairness of the timers), StatsSpec  *)
(* (jitter, percentile, quality score and grade as functions).            *)
(***************************************************************************)
EXTENDS Integers, Sequences, FiniteSets, TLC

VARIABLES
    isRunning,            \* this.isRunning
    testResults,          \* this.testResults: numbers, null, undefined
    currentTarget,        \* this.currentTarget
    testCount,            \* this.testCount
    successCount,         \* this.successCount
    failCount,            \* this.failCount
    chartData,            \* this.chartData: {x, y} points
    testHistory,          \* this.testHistory, newest first
    monitoringSessionId,  \* this.monitoringSessionId
    useBackend,           \* this.useBackend
    wsOpen,               \* this.ws && this.ws.readyState === WebSocket.OPEN
    loops,                \* the live runLimitedTest / runContinuousTest calls
    summaryLog,           \* the summaries stopTest() has logged with addLog
    toServer,             \* WebSocket messages browser -> server, in order
    toBrowser,            \* WebSocket messages server -> browser, in order
    monitoringSessions,   \* server.js: the Map monitoringSessions
    timers,               \* server.js: the setInterval handles not yet cleared
    pings,                \* server.js: interval callbacks awaiting performHttpPing
    nextTimer,            \* the next setInterval handle
    toPeer,               \* WebSocket messages server -> the second connection
    closed,               \* server.js: the connections whose close handler ran
    batch,                \* server.js: the performHttpPing calls of /api/batch-test
    fallback,             \* the fallbackDNSComparison() call in progress
    comparisonResults,    \* this.comparisonResults (<<>> for null)
    currentSort,          \* this.currentSort
    compares,             \* history: number of comparisons started so far
    metrics,              \* the arguments and the values of the statistics functions
    runId,                \* history: number of runs started so far
    stopCalls,            \* history: number of stop clicks so far
    ticks,                \* history: number of interval callbacks so far
    lastOp                \* history: what the handler that ran last did

vars == <<isRunning, testResults, currentTarget, testCount, successCount,
          failCount, chartData, testHistory, monitoringSessionId, useBackend,
          wsOpen, loops, summaryLog, toServer, toBrowser, monitoringSessions,
          timers, pings, nextTimer, toPeer, closed, batch, fallback,
          comparisonResults, currentSort, compares, metrics, runId, stopCalls,
          ticks, lastOp>>

runState == <<testResults, successCount, failCount, testCount, chartData>>

serverVars == <<monitoringSessions, timers, pings, nextTimer, ticks, toPeer, closed>>

compareVars == <<batch, fallback, comparisonResults, currentSort, compares>>

-----------------------------------------------------------------------------
(* Bounds of the model *)

MaxCount == 2
MaxProbes == 2
MaxRuns == 2
MaxStops == 1
MaxTicks == 2
MaxLatency == 1
MaxTargetLen == 1
MaxSent == 3
MaxServers == 2
MaxTests == 2
MaxPingTime == 2
MaxCompares == 1
MaxSamples == 4
MaxSample == 5

(* Program constants *)

maxDataPoints == 50
timeout == 5000
MinIntervalMs == 200
MinCount == 1
NoSession == 0
defaultInterval == 1000

-----------------------------------------------------------------------------
(* JavaScript values stored in testResults *)

Num(n) == [kind |-> "number", v |-> n]
Null == [kind |-> "null", v |-> 0]
Undefined == [kind |-> "undefined", v |-> 0]

Latencies == {10 * k : k \in 1..MaxLatency}

Chars == {" ", "g"}

RECURSIVE SeqsUpTo(_)
SeqsUpTo(n) ==
    IF n = 0 THEN {<<>>}
    ELSE LET shorter == SeqsUpTo(n - 1)
         IN  shorter \cup {Append(s, c) : s \in {t \in shorter : Len(t) = n - 1}, c \in Chars}

TargetInputs == SeqsUpTo(MaxTargetLen)
CountInputs == 0..MaxCount
IntervalInputs == {0, 1000}

RECURSIVE TrimLeft(_)
TrimLeft(s) == IF s # <<>> /\ Head(s) = " " THEN TrimLeft(Tail(s)) ELSE s

RECURSIVE TrimRight(_)
TrimRight(s) ==
    IF s # <<>> /\ s[Len(s)] = " " THEN TrimRight(SubSeq(s, 1, Len(s) - 1)) ELSE s

Trim(s) == TrimRight(TrimLeft(s))

-----------------------------------------------------------------------------
(* Pure functions of the analyzer *)

\* testResults.filter(r => r !== null): undefined passes the filter
validResults(results) == SelectSeq(results, LAMBDA r : r # Null)

numbersOf(results) == SelectSeq(results, LAMBDA r : r.kind = "number")

\* updateMetrics(): current.toFixed(1) is a TypeError when the last valid
\* result is undefined
updateMetricsThrows(results) ==
    LET v == validResults(results)
    IN  Len(v) > 0 /\ v[Len(v)].kind # "number"

\* calculateAdvancedMetrics(): getMedian(validResults).toFixed(1). The sort
\* puts undefined last, so for an odd length the middle element is undefined
\* when at most half of the entries are numbers; for an even length the
\* median is a sum, NaN at worst, and NaN.toFixed does not throw.
calculateAdvancedMetricsThrows(results) ==
    LET v == validResults(results)
    IN  /\ Len(v) > 0
        /\ Len(v) % 2 = 1
        /\ Len(numbersOf(v)) <= Len(v) \div 2

\* the display calls of the success path of performSingleTest, in order
successPathThrows(results) ==
    updateMetricsThrows(results) \/ calculateAdvancedMetricsThrows(results)

\* the display calls of the catch block of performSingleTest
catchPathThrows(results) ==
    updateMetricsThrows(results) \/ calculateAdvancedMetricsThrows(results)

Abs(x) == IF x < 0 THEN -x ELSE x

RECURSIVE SumAbsDiff(_)
SumAbsDiff(values) ==
    IF Len(values) < 2 THEN 0
    ELSE Abs(values[2].v - values[1].v) + SumAbsDiff(Tail(values))

\* calculateJitter(values) dividing by values.length
calculateJitterOverLength(values) ==
    IF Len(values) < 2 THEN [num |-> 0, den |-> 1]
    ELSE IF Len(numbersOf(values)) < Len(values) THEN [num |-> 0, den |-> 0]
    ELSE [num |-> SumAbsDiff(values), den |-> Len(values)]

\* calculateJitter(values) as the fraction num/den; den = 0 stands for NaN
\* (a difference with undefined)
calculateJitter(values) ==
    IF Len(values) < 2 THEN [num |-> 0, den |-> 1]
    ELSE IF Len(numbersOf(values)) < Len(values) THEN [num |-> 0, den |-> 0]
    ELSE [num |-> SumAbsDiff(values), den |-> Len(values) - 1]

\* this.failCount / this.testCount * 100, as the fraction num/den
packetLoss(fails, tests) == [num |-> fails * 100, den |-> tests]

NaN == [kind |-> "NaN", v |-> 0]

\* values.slice().sort((a, b) => a - b): numbers ascending, undefined last
sortsBefore(a, b) == a.kind = "number" /\ (b.kind # "number" \/ a.v < b.v)

RECURSIVE insertSorted(_, _)
insertSorted(sorted, x) ==
    IF sorted = <<>> THEN <<x>>
    ELSE IF sortsBefore(x, Head(sorted)) THEN <<x>> \o sorted
    ELSE <<Head(sorted)>> \o insertSorted(Tail(sorted), x)

RECURSIVE sortAscending(_)
sortAscending(values) ==
    IF values = <<>> THEN <<>>
    ELSE insertSorted(sortAscending(Tail(values)), Head(values))

\* percentile(values, p) with p = pct / 100, in exact arithmetic: the
\* fraction num/den, NaN for no values (or an interpolation with undefined),
\* undefined when the chosen element is undefined
percentileNearestRank(values, pct) ==
    IF Len(values) = 0 THEN [kind |-> "NaN", num |-> 0, den |-> 0]
    ELSE LET sorted == sortAscending(values)
             a == sorted[((Len(sorted) - 1) * pct) \div 100 + 1]
         IN  [kind |-> a.kind, num |-> a.v, den |-> 1]

percentile(values, pct) ==
    IF Len(values) = 0 THEN [kind |-> "NaN", num |-> 0, den |-> 0]
    ELSE LET sorted == sortAscending(values)
             idx == (Len(sorted) - 1) * pct
             lo == idx \div 100
             hi == IF idx % 100 = 0 THEN lo ELSE lo + 1
             a == sorted[lo + 1]
             b == sorted[hi + 1]
         IN  IF lo = hi
             THEN [kind |-> a.kind, num |-> a.v, den |-> 1]
             ELSE IF a.kind = "number" /\ b.kind = "number"
             THEN [kind |-> "number",
                   num |-> a.v * 100 + (b.v - a.v) * (idx - lo * 100), den |-> 100]
             ELSE [kind |-> "NaN", num |-> 0, den |-> 0]

\* what percentile(values, p) leaves in its argument: values.slice() is a
\* copy, and the sort works on the copy
afterPercentile(values) == values

RECURSIVE sumOf(_)
sumOf(values) == IF values = <<>> THEN 0 ELSE Head(values).v + sumOf(Tail(values))

RECURSIVE GCD(_, _)
GCD(a, b) == IF b = 0 THEN a ELSE GCD(b, a % b)

\* Math.min(num / den, 1) for num, den >= 0, in lowest terms; den = 0 is
\* Infinity here
minWithOne(num, den) ==
    IF num >= den THEN [num |-> 1, den |-> 1]
    ELSE [num |-> num \div GCD(num, den), den |-> den \div GCD(num, den)]

\* Math.round(x) of x = X / D, D > 0: the integer nearest to x, a half rounds up
roundOf(X, D) == (2 * X + D) \div (2 * D)

\* the same with Math.floor in the place of Math.round
floorOf(X, D) == X \div D

\* calculateQualityScore() from `const Ln` on, in exact arithmetic, for avg,
\* jitter and loss given as fractions num/den (a loss of den = 0 is Infinity):
\*   Math.round(100 * (1 - (0.60 * Ln + 0.25 * Jn + 0.15 * Pn))), clamped to
\*   0..100, with Ln = min(avg / 300, 1), Jn = min(jitter / 100, 1),
\*   Pn = min(loss / 10, 1)
scoreOfFloor(avg, jitter, loss) ==
    LET Ln == minWithOne(avg.num, 300 * avg.den)
        Jn == minWithOne(jitter.num, 100 * jitter.den)
        Pn == minWithOne(loss.num, 10 * loss.den)
        D == Ln.den * Jn.den * Pn.den
        X == 100 * D - 60 * Ln.num * Jn.den * Pn.den
                     - 25 * Jn.num * Ln.den * Pn.den
                     - 15 * Pn.num * Ln.den * Jn.den
        score == floorOf(X, D)
    IN  IF score < 0 THEN 0 ELSE IF score > 100 THEN 100 ELSE score

scoreOf(avg, jitter, loss) ==
    LET Ln == minWithOne(avg.num, 300 * avg.den)
        Jn == minWithOne(jitter.num, 100 * jitter.den)
        Pn == minWithOne(loss.num, 10 * loss.den)
        D == Ln.den * Jn.den * Pn.den
        X == 100 * D - 60 * Ln.num * Jn.den * Pn.den
                     - 25 * Jn.num * Ln.den * Pn.den
                     - 15 * Pn.num * Ln.den * Jn.den
        score == roundOf(X, D)
    IN  IF score < 0 THEN 0 ELSE IF score > 100 THEN 100 ELSE score

\* calculateQualityScore() from `const avg` on: NaN when avg, jitter or loss
\* is NaN
scoreOfValidResults(v, fails, tests) ==
    LET n == Len(v)
    IN  IF n = 0 \/ Len(numbersOf(v)) < n \/ (tests = 0 /\ fails = 0) THEN NaN
        ELSE Num(scoreOf([num |-> sumOf(v), den |-> n], calculateJitter(v),
                         packetLoss(fails, tests)))

\* calculateQualityScore() without its test for an empty validResults
calculateQualityScoreUnguarded(results, fails, tests) ==
    scoreOfValidResults(validResults(results), fails, tests)

\* calculateQualityScore()
calculateQualityScore(results, fails, tests) ==
    IF Len(validResults(results)) = 0 THEN Num(0)
    ELSE scoreOfValidResults(validResults(results), fails, tests)

\* getQualityGrade(score) with > in the place of >=
getQualityGradeStrict(score) ==
    IF score.kind # "number" THEN "F"
    ELSE IF score.v > 95 THEN "A+"
    ELSE IF score.v > 90 THEN "A"
    ELSE IF score.v > 75 THEN "B"
    ELSE IF score.v > 60 THEN "C"
    ELSE IF score.v > 40 THEN "D"
    ELSE "F"

\* getQualityGrade(score).grade; every comparison with NaN is false
getQualityGrade(score) ==
    IF score.kind # "number" THEN "F"
    ELSE IF score.v >= 95 THEN "A+"
    ELSE IF score.v >= 90 THEN "A"
    ELSE IF score.v >= 75 THEN "B"
    ELSE IF score.v >= 60 THEN "C"
    ELSE IF score.v >= 40 THEN "D"
    ELSE "F"

\* '📊 No valid results to display'
NoValidResults ==
    [valid |-> FALSE, loss |-> [num |-> 0, den |-> 1],
     jitter |-> [num |-> 0, den |-> 1], total |-> 0, score |-> Num(0)]

\* generateSummary(): the text of the summary, by its parts
generateSummary(results, fails, tests) ==
    LET v == validResults(results)
    IN  IF Len(v) = 0
        THEN NoValidResults
        ELSE [valid |-> TRUE, loss |-> packetLoss(fails, tests),
              jitter |-> calculateJitter(v), total |-> tests,
              score |-> calculateQualityScore(results, fails, tests)]

\* saveToHistory(): unshift the entry, pop beyond config.history.maxItems
maxItems == 100

saveToHistory(history, results, target, fails, tests) ==
    LET v == validResults(results)
        entry == [target |-> target, packetLoss |-> packetLoss(fails, tests),
                  jitter |-> calculateJitter(v), totalTests |-> tests,
                  qualityScore |-> calculateQualityScore(results, fails, tests)]
        added == <<entry>> \o history
    IN  IF Len(v) = 0 THEN history
        ELSE IF Len(added) > maxItems THEN SubSeq(added, 1, Len(added) - 1)
        ELSE added

-----------------------------------------------------------------------------
(* One probe: the transport and what measureLatency / backendPing make of it *)

\* fetch(url, {signal}) of measureLatency: resolves after `elapsed` ms, or
\* rejects after `elapsed` ms (a network error, or the abort at the timeout)
TransportResults ==
    [ok : {TRUE}, elapsed : Latencies] \cup
    [ok : {FALSE}, elapsed : Latencies \cup {timeout}]

\* the answer of POST /api/ping: no answer (fetch rejects or !response.ok),
\* or the JSON body with its alive flag and, on the ICMP path only, time
BackendReplies ==
    {[kind |-> "error", alive |-> FALSE, hasTime |-> FALSE, time |-> 0]} \cup
    {[kind |-> "json", alive |-> FALSE, hasTime |-> FALSE, time |-> 0]} \cup
    {[kind |-> "json", alive |-> TRUE, hasTime |-> FALSE, time |-> 0]} \cup
    [kind : {"json"}, alive : {TRUE}, hasTime : {TRUE}, time : Latencies]

Return(value) == [thrown |-> FALSE, value |-> value]
Throw == [thrown |-> TRUE, value |-> Null]

measureLatency(tr) ==
    IF tr.ok THEN Return(Num(tr.elapsed))
    ELSE IF tr.elapsed < timeout THEN Return(Num(tr.elapsed))
    ELSE Throw

backendPing(reply, tr) ==
    IF reply.kind = "error" THEN measureLatency(tr)
    ELSE IF reply.alive
         THEN (IF reply.hasTime THEN Return(Num(reply.time)) ELSE Return(Undefined))
         ELSE Return(Null)

\* what `latency = await (useBackend ? backendPing() : measureLatency())` of
\* performSingleTest can come to, over every answer of the backend and of
\* the transport
Completions ==
    IF useBackend
    THEN {backendPing(reply, tr) : reply \in BackendReplies, tr \in TransportResults}
    ELSE {measureLatency(tr) : tr \in TransportResults}

\* whether the fetch of measureLatency rejected (the catch block ran) in a
\* probe that came to `completion`: every value the answers allow
transportFailed(completion) ==
    IF useBackend
    THEN {reply.kind = "error" /\ ~tr.ok :
            <<reply, tr>> \in {a \in BackendReplies \X TransportResults :
                                 backendPing(a[1], a[2]) = completion}}
    ELSE {~tr.ok : tr \in {t \in TransportResults : measureLatency(t) = completion}}

\* chartData.push(point); if (chartData.length > maxDataPoints) chartData.shift()
pushChart(chart, point) ==
    LET pushed == Append(chart, point)
    IN  IF Len(pushed) > maxDataPoints THEN Tail(pushed) ELSE pushed

\* no fallbackDNSComparison() call is in progress
NoFallback ==
    [active |-> FALSE, n |-> 0, count |-> 0, idx |-> 0, i |-> 0, testResults |-> <<>>,
     results |-> <<>>, zero |-> 0, signal |-> FALSE, pc |-> "none"]

-----------------------------------------------------------------------------
(* The arguments and the values of the statistics functions *)

Unset == [kind |-> "unset", num |-> 0, den |-> 1]

\* nothing is given and nothing is computed
NoMetrics ==
    [given |-> <<>>, values |-> <<>>, jitter |-> Unset, serverJitter |-> Unset,
     p |-> 0, percentile |-> Unset, score |-> [kind |-> "unset", v |-> 0],
     grade |-> "none"]

-----------------------------------------------------------------------------
(* What the handler that ran last did (history, read by the properties) *)

NoOp ==
    [op |-> "init", run |-> 0, kind |-> "none", count |-> 0, target |-> <<>>,
     interval |-> 0, slept |-> FALSE, dispatch |-> FALSE, recorded |-> FALSE,
     stopped |-> FALSE, threw |-> FALSE, wasRunning |-> FALSE, outcome |-> "none",
     failed |-> FALSE, ws |-> "none", timer |-> 0, existed |-> FALSE,
     requested |-> 0, zeroSuccess |-> 0, ranked |-> 0, winner |-> "none"]

-----------------------------------------------------------------------------
(* The browser: EnhancedNetworkAnalyzer *)

Constructed ==
    /\ isRunning = FALSE
    /\ testResults = <<>>
    /\ currentTarget = <<>>
    /\ testCount = 0
    /\ successCount = 0
    /\ failCount = 0
    /\ chartData = <<>>
    /\ testHistory = <<>>
    /\ monitoringSessionId = NoSession
    /\ useBackend \in BOOLEAN
    /\ wsOpen \in BOOLEAN
    /\ (wsOpen => useBackend)
    /\ loops = {}
    /\ summaryLog = <<>>
    /\ toServer = <<>>
    /\ toBrowser = <<>>
    /\ monitoringSessions = <<>>
    /\ timers = {}
    /\ pings = {}
    /\ nextTimer = 1
    /\ toPeer = <<>>
    /\ closed = {}
    /\ batch = <<>>
    /\ fallback = NoFallback
    /\ comparisonResults = <<>>
    /\ currentSort = "avg"
    /\ compares = 0
    /\ runId = 0
    /\ stopCalls = 0
    /\ ticks = 0
    /\ lastOp = NoOp

Init ==
    /\ Constructed
    /\ metrics = NoMetrics

\* stopRealtimeMonitoring(), called by stopTest() when a session id is set
stopRealtimeMonitoring ==
    IF monitoringSessionId # NoSession
    THEN /\ toServer' = Append(toServer, [action |-> "stop-monitoring",
                                          host |-> <<>>, interval |-> 0,
                                          sessionId |-> monitoringSessionId])
         /\ monitoringSessionId' = NoSession
    ELSE UNCHANGED <<toServer, monitoringSessionId>>

\* stopTest() on a run whose results and counters are the arguments: the
\* caller may have changed them earlier in the same handler
stopTest(results, fails, tests, target) ==
    /\ isRunning' = FALSE
    /\ stopRealtimeMonitoring
    /\ summaryLog' = Append(summaryLog, generateSummary(results, fails, tests))
    /\ testHistory' = saveToHistory(testHistory, results, target, fails, tests)

\* performSingleTest() from the resolution of its probe on: what it leaves in
\* the run state, and whether it rejects
performSingleTestResult(completion, testNumber) ==
    LET failed(results, fails) ==
            LET pushed == Append(results, Null)
            IN  [results |-> pushed, fails |-> fails + 1,
                 rejected |-> catchPathThrows(pushed)]
    IN  IF completion.thrown
        THEN LET c == failed(testResults, failCount)
             IN  [results |-> c.results, succ |-> successCount, fails |-> c.fails,
                  chart |-> chartData, rejected |-> c.rejected, recorded |-> TRUE]
        ELSE IF completion.value # Null
        THEN LET pushed == Append(testResults, completion.value)
                 chart == pushChart(chartData, [x |-> testNumber, y |-> completion.value])
             IN  IF successPathThrows(pushed)
                 THEN LET c == failed(pushed, failCount)
                      IN  [results |-> c.results, succ |-> successCount + 1,
                           fails |-> c.fails, chart |-> chart,
                           rejected |-> c.rejected, recorded |-> TRUE]
                 ELSE [results |-> pushed, succ |-> successCount + 1,
                       fails |-> failCount, chart |-> chart,
                       rejected |-> FALSE, recorded |-> TRUE]
        ELSE [results |-> testResults, succ |-> successCount, fails |-> failCount,
              chart |-> chartData, rejected |-> FALSE, recorded |-> FALSE]

\* a loop that has just called performSingleTest(): testCount++ is done and
\* the probe is in flight
Probing(run, kind, count, i, testNumber) ==
    [run |-> run, kind |-> kind, count |-> count, i |-> i, pc |-> "probing",
     testNumber |-> testNumber]

\* startRealtimeMonitoring(), reached from startTest() with the socket open
startRealtimeMonitoring(interval, target, id) ==
    /\ monitoringSessionId' = id
    /\ toServer' = Append(toServer, [action |-> "start-monitoring", host |-> target,
                                     interval |-> interval, sessionId |-> id])

\* startTest() without its first statement
alreadyRunningIgnored == FALSE

\* if (this.isRunning) return;
alreadyRunning == isRunning

\* startTest(): the click on Start, quickTest(), gamingTest(), setAsTarget()
StartTest(rawTarget, count, interval, continuous, realtime) ==
    /\ LET target == Trim(rawTarget)
           op == [NoOp EXCEPT !.op = "startTest", !.wasRunning = isRunning]
           read == [op EXCEPT !.target = target, !.count = count, !.interval = interval,
                              !.kind = IF realtime /\ wsOpen THEN "realtime"
                                       ELSE IF continuous THEN "continuous" ELSE "limited"]
       IN  IF alreadyRunning
           THEN /\ lastOp' = op
                /\ UNCHANGED <<isRunning, runState, currentTarget, testHistory,
                               monitoringSessionId, loops, summaryLog, toServer, runId>>
           ELSE IF target = <<>>
           THEN /\ currentTarget' = target
                /\ lastOp' = [op EXCEPT !.target = target]
                /\ UNCHANGED <<isRunning, runState, testHistory, monitoringSessionId,
                               loops, summaryLog, toServer, runId>>
           ELSE /\ runId < MaxRuns
                /\ runId' = runId + 1
                /\ currentTarget' = target
                /\ testResults' = <<>>
                /\ chartData' = <<>>
                /\ successCount' = 0
                /\ failCount' = 0
                /\ IF realtime /\ wsOpen
                   THEN /\ startRealtimeMonitoring(interval, target, runId + 1)
                        /\ isRunning' = TRUE
                        /\ testCount' = 0
                        /\ lastOp' = [read EXCEPT !.run = runId + 1]
                        /\ UNCHANGED <<loops, summaryLog, testHistory>>
                   ELSE IF continuous \/ 0 < count
                   THEN \* the loop runs to its first await: the first probe
                        /\ isRunning' = TRUE
                        /\ testCount' = 1
                        /\ loops' = loops \cup
                               {IF continuous
                                THEN Probing(runId + 1, "continuous", 0, 0, 1)
                                ELSE Probing(runId + 1, "limited", count, 0, 1)}
                        /\ lastOp' = [read EXCEPT !.run = runId + 1, !.dispatch = TRUE]
                        /\ UNCHANGED <<summaryLog, testHistory, monitoringSessionId, toServer>>
                   ELSE \* runLimitedTest with count < 1: no probe, then stopTest()
                        /\ testCount' = 0
                        /\ stopTest(<<>>, 0, 0, target)
                        /\ lastOp' = [read EXCEPT !.run = runId + 1, !.stopped = TRUE]
                        /\ UNCHANGED loops
    /\ UNCHANGED <<useBackend, wsOpen, toBrowser, serverVars, compareVars, metrics, stopCalls>>

\* stopTest(): the click on Stop
StopTest ==
    /\ stopCalls < MaxStops
    /\ stopCalls' = stopCalls + 1
    /\ stopTest(testResults, failCount, testCount, currentTarget)
    /\ lastOp' = [NoOp EXCEPT !.op = "stopTest", !.stopped = TRUE,
                              !.wasRunning = isRunning]
    /\ UNCHANGED <<runState, currentTarget, useBackend, wsOpen, loops, toBrowser,
                   serverVars, compareVars, metrics, runId>>

\* runLimitedTest: `i < count - 1 && this.isRunning` guards the sleep;
\* runContinuousTest sleeps after every probe
sleepCondition(l) ==
    IF l.kind = "limited" THEN l.i < l.count - 1 /\ isRunning ELSE TRUE

\* the loop condition without its test of this.isRunning
loopConditionIgnoresStop(l, i) ==
    IF l.kind = "limited" THEN i < l.count ELSE TRUE

\* the loop condition, evaluated with the counter at i: `i < count &&
\* this.isRunning` of runLimitedTest, `this.isRunning` of runContinuousTest
loopCondition(l, i) ==
    IF l.kind = "limited" THEN i < l.count /\ isRunning ELSE isRunning

\* the kind of value a resolved probe hands to performSingleTest
outcomeOf(completion) ==
    IF completion.thrown THEN "throw" ELSE completion.value.kind

\* The probe of loop l resolves: the rest of performSingleTest(), then the
\* loop up to its next await (the sleep) or to its end.
\*   runLimitedTest:    if (i < count - 1 && this.isRunning) await sleep;
\*                      otherwise i++, the for condition fails, and
\*                      if (this.isRunning) this.stopTest()
\*   runContinuousTest: await sleep, unconditionally
\* A rejected performSingleTest() rejects the loop: nothing after it runs.
ProbeComplete(l, completion, failed) ==
    /\ l \in loops
    /\ l.pc = "probing"
    /\ LET r == performSingleTestResult(completion, l.testNumber)
           sleeps == ~r.rejected /\ sleepCondition(l)
           stops == ~r.rejected /\ ~sleeps /\ isRunning
       IN  /\ testResults' = r.results
           /\ successCount' = r.succ
           /\ failCount' = r.fails
           /\ chartData' = r.chart
           /\ loops' = IF sleeps THEN (loops \ {l}) \cup {[l EXCEPT !.pc = "sleeping"]}
                       ELSE loops \ {l}
           /\ IF stops
              THEN stopTest(r.results, r.fails, testCount, currentTarget)
              ELSE UNCHANGED <<isRunning, monitoringSessionId, toServer, summaryLog,
                               testHistory>>
           /\ lastOp' = [NoOp EXCEPT !.op = "probeDone", !.run = l.run, !.kind = l.kind,
                                     !.count = l.count, !.slept = sleeps,
                                     !.recorded = r.recorded, !.stopped = stops,
                                     !.threw = r.rejected, !.wasRunning = isRunning,
                                     !.outcome = outcomeOf(completion),
                                     !.failed = failed]
    /\ UNCHANGED <<testCount, currentTarget, useBackend, wsOpen, toBrowser,
                   serverVars, compareVars, metrics, runId, stopCalls>>

\* The sleep of loop l ends: i++ and the loop condition, then either the next
\* performSingleTest() up to its fetch, or the end of the loop.
WakeUp(l) ==
    /\ l \in loops
    /\ l.pc = "sleeping"
    /\ LET i == IF l.kind = "limited" THEN l.i + 1 ELSE l.i
           again == loopCondition(l, i)
           stops == ~again /\ l.kind = "limited" /\ isRunning
       IN  /\ again => testCount < MaxProbes
           /\ IF again
              THEN /\ testCount' = testCount + 1
                   /\ loops' = (loops \ {l}) \cup
                               {Probing(l.run, l.kind, l.count, i, testCount + 1)}
              ELSE /\ loops' = loops \ {l}
                   /\ UNCHANGED testCount
           /\ IF stops
              THEN stopTest(testResults, failCount, testCount, currentTarget)
              ELSE UNCHANGED <<isRunning, monitoringSessionId, toServer, summaryLog,
                               testHistory>>
           /\ lastOp' = [NoOp EXCEPT !.op = "wake", !.run = l.run, !.kind = l.kind,
                                     !.count = l.count, !.dispatch = again,
                                     !.stopped = stops, !.wasRunning = isRunning]
    /\ UNCHANGED <<testResults, successCount, failCount, chartData, currentTarget,
                   useBackend, wsOpen, toBrowser, serverVars, compareVars, metrics, runId, stopCalls>>

\* handleMonitoringUpdate(data) with the push of the failed sample forgotten
handleMonitoringUpdateNoPush(data) ==
    IF ~data.alive
    THEN /\ failCount' = failCount + 1
         /\ UNCHANGED <<testResults, successCount, chartData, testCount>>
    ELSE /\ successCount' = successCount + 1
         /\ testResults' = Append(testResults, data.time)
         /\ chartData' = pushChart(chartData, [x |-> testCount, y |-> data.time])
         /\ testCount' = testCount + 1
         /\ UNCHANGED failCount

\* handleMonitoringUpdate(data)
handleMonitoringUpdate(data) ==
    IF ~data.alive
    THEN /\ failCount' = failCount + 1
         /\ testResults' = Append(testResults, Null)
         /\ UNCHANGED <<successCount, chartData, testCount>>
    ELSE /\ successCount' = successCount + 1
         /\ testResults' = Append(testResults, data.time)
         /\ chartData' = pushChart(chartData, [x |-> testCount, y |-> data.time])
         /\ testCount' = testCount + 1
         /\ UNCHANGED failCount

\* ws.onmessage -> handleWebSocketMessage(event): monitoring-started and
\* monitoring-stopped are logged only
BrowserReceive ==
    /\ toBrowser # <<>>
    /\ LET msg == Head(toBrowser)
       IN  /\ IF msg.type = "monitoring-update"
              THEN handleMonitoringUpdate(msg.data)
              ELSE UNCHANGED runState
           /\ lastOp' = [NoOp EXCEPT !.op = msg.type, !.run = msg.sessionId,
                                     !.recorded = (msg.type = "monitoring-update"),
                                     !.wasRunning = isRunning]
    /\ toBrowser' = Tail(toBrowser)
    /\ UNCHANGED <<isRunning, currentTarget, testHistory, monitoringSessionId,
                   useBackend, wsOpen, loops, summaryLog, toServer, serverVars, compareVars, metrics,
                   runId, stopCalls>>

-----------------------------------------------------------------------------
(* The backend: monitoring sessions of server.js *)

Message(type, sessionId, alive, time) ==
    [type |-> type, sessionId |-> sessionId, data |-> [alive |-> alive, time |-> time]]

\* monitoringSessions.delete(sessionId)
deleteSession(sessions, sessionId) ==
    [id \in DOMAIN sessions \ {sessionId} |-> sessions[id]]

\* monitoringSessions.set(sessionId, session)
setSession(sessions, sessionId, session) ==
    [id \in DOMAIN sessions \cup {sessionId} |->
        IF id = sessionId THEN session ELSE sessions[id]]

\* clearInterval(handle)
clearInterval(live, handle) == {t \in live : t.id # handle}

\* stopMonitoring(ws, sessionId) without its `if (session)` test
stopMonitoringUnguarded(state, sessionId) ==
    [sessions |-> deleteSession(state.sessions, sessionId),
     timers |-> IF sessionId \in DOMAIN state.sessions
                THEN clearInterval(state.timers, state.sessions[sessionId].interval)
                ELSE state.timers,
     sent |-> Append(state.sent, Message("monitoring-stopped", sessionId, FALSE, Null))]

\* stopMonitoring(ws, sessionId) applied to the registry, the timers and the
\* messages sent so far; the result is the three after the call
stopMonitoring(state, sessionId) ==
    IF sessionId \in DOMAIN state.sessions
    THEN [sessions |-> deleteSession(state.sessions, sessionId),
          timers |-> clearInterval(state.timers, state.sessions[sessionId].interval),
          sent |-> Append(state.sent, Message("monitoring-stopped", sessionId, FALSE, Null))]
    ELSE state

\* startMonitoring(ws, data) without its stopMonitoring of a registered id
startMonitoringKeepsOld(state, ws, data, handle) ==
    IF data.host = <<>> \/ data.sessionId = NoSession
    THEN [state EXCEPT !.sent = Append(state.sent, Message("error", data.sessionId, FALSE, Null))]
    ELSE [sessions |-> setSession(state.sessions, data.sessionId,
                                  [ws |-> ws, interval |-> handle, host |-> data.host]),
          timers |-> state.timers \cup {[id |-> handle, ws |-> ws,
                                         sessionId |-> data.sessionId, host |-> data.host]},
          sent |-> Append(state.sent,
                          Message("monitoring-started", data.sessionId, FALSE, Null))]

\* startMonitoring(ws, data)
startMonitoring(state, ws, data, handle) ==
    IF data.host = <<>> \/ data.sessionId = NoSession
    THEN [state EXCEPT !.sent = Append(state.sent, Message("error", data.sessionId, FALSE, Null))]
    ELSE LET stopped == IF data.sessionId \in DOMAIN state.sessions
                        THEN stopMonitoring(state, data.sessionId)
                        ELSE state
             timer == [id |-> handle, ws |-> ws, sessionId |-> data.sessionId,
                       host |-> data.host]
         IN  [sessions |-> setSession(stopped.sessions, data.sessionId,
                                      [ws |-> ws, interval |-> handle, host |-> data.host]),
              timers |-> stopped.timers \cup {timer},
              sent |-> Append(stopped.sent,
                              Message("monitoring-started", data.sessionId, FALSE, Null))]

\* the messages sent so far on connection ws
outbox(ws) == IF ws = "browser" THEN toBrowser ELSE toPeer

\* ws.send(...) on connection ws has made its messages `sent`
deliver(ws, sent) ==
    IF ws = "browser"
    THEN toBrowser' = sent /\ UNCHANGED toPeer
    ELSE toPeer' = sent /\ UNCHANGED toBrowser

\* ws.on('message') of connection ws for the message `data`: the switch on
\* data.action
onMessage(ws, data) ==
    LET state == [sessions |-> monitoringSessions, timers |-> timers, sent |-> outbox(ws)]
        after == IF data.action = "start-monitoring"
                 THEN startMonitoring(state, ws, data, nextTimer)
                 ELSE stopMonitoring(state, data.sessionId)
    IN  /\ monitoringSessions' = after.sessions
        /\ timers' = after.timers
        /\ deliver(ws, after.sent)
        /\ nextTimer' = IF data.action = "start-monitoring" THEN nextTimer + 1
                        ELSE nextTimer
        /\ lastOp' = [NoOp EXCEPT !.op = data.action, !.run = data.sessionId,
                                  !.interval = data.interval, !.target = data.host,
                                  !.wasRunning = isRunning, !.ws = ws,
                                  !.existed = data.sessionId \in DOMAIN monitoringSessions]

\* ws.on('message') for the next message of the browser's connection
ServerReceive ==
    /\ toServer # <<>>
    /\ onMessage("browser", Head(toServer))
    /\ toServer' = Tail(toServer)
    /\ UNCHANGED <<isRunning, runState, compareVars, metrics, currentTarget, testHistory, monitoringSessionId,
                   useBackend, wsOpen, loops, summaryLog, pings, ticks, closed, runId,
                   stopCalls>>

\* the setInterval callback of a live timer, up to await performHttpPing(host, 1)
TimerTick(t) ==
    /\ t \in timers
    /\ ticks < MaxTicks
    /\ ticks' = ticks + 1
    /\ pings' = pings \cup {[tick |-> ticks + 1, ws |-> t.ws, sessionId |-> t.sessionId,
                             timer |-> t.id]}
    /\ lastOp' = [NoOp EXCEPT !.op = "tick", !.run = t.sessionId, !.dispatch = TRUE,
                              !.wasRunning = isRunning, !.ws = t.ws, !.timer = t.id]
    /\ UNCHANGED <<isRunning, runState, compareVars, metrics, currentTarget, testHistory, monitoringSessionId,
                   useBackend, wsOpen, loops, summaryLog, toServer, toBrowser, toPeer,
                   closed, monitoringSessions, timers, nextTimer, runId, stopCalls>>

\* performHttpPing(host, 1) of the callback returns: alive with avg = the one
\* latency, or not alive with avg = null; the callback sends the update
PingResults == {[alive |-> TRUE, time |-> Num(t)] : t \in Latencies} \cup
               {[alive |-> FALSE, time |-> Null]}

\* ws.send on a closed connection delivers nothing
PingDone(p, result) ==
    /\ p \in pings
    /\ pings' = pings \ {p}
    /\ IF p.ws \in closed
       THEN UNCHANGED <<toBrowser, toPeer>>
       ELSE deliver(p.ws, Append(outbox(p.ws),
                        Message("monitoring-update", p.sessionId, result.alive, result.time)))
    /\ lastOp' = [NoOp EXCEPT !.op = "pingDone", !.run = p.sessionId, !.count = p.tick,
                              !.wasRunning = isRunning, !.ws = p.ws, !.timer = p.timer]
    /\ UNCHANGED <<isRunning, runState, compareVars, metrics, currentTarget, testHistory, monitoringSessionId,
                   useBackend, wsOpen, loops, summaryLog, toServer, monitoringSessions,
                   timers, nextTimer, ticks, closed, runId, stopCalls>>

\* ws.on('close') without its clearInterval
onCloseKeepsTimers(state, ws) ==
    [state EXCEPT !.sessions = [id \in {i \in DOMAIN state.sessions :
                                            state.sessions[i].ws # ws} |->
                                    state.sessions[id]]]

\* ws.on('close'): for every session of the connection, clearInterval and
\* monitoringSessions.delete
onClose(state, ws) ==
    LET mine == {id \in DOMAIN state.sessions : state.sessions[id].ws = ws}
    IN  [state EXCEPT
            !.sessions = [id \in DOMAIN state.sessions \ mine |-> state.sessions[id]],
            !.timers = {t \in state.timers :
                            \A id \in mine : t.id # state.sessions[id].interval}]

-----------------------------------------------------------------------------
(* The backend alone, with two connections whose clients send any message *)

Connections == {"browser", "peer"}
Hosts == {<<"g">>, <<"h">>}
SessionIds == {1, 2}

\* the JSON messages of a client: start-monitoring with or without a host
\* and a sessionId, stop-monitoring with or without a sessionId
ClientMessages ==
    [action : {"start-monitoring"}, host : Hosts \cup {<<>>},
     interval : {defaultInterval}, sessionId : SessionIds \cup {NoSession}] \cup
    [action : {"stop-monitoring"}, host : {<<>>},
     interval : {0}, sessionId : SessionIds \cup {NoSession}]

\* ws.on('message') of an open connection
ClientMessage(ws, data) ==
    /\ ws \notin closed
    /\ Len(toBrowser) + Len(toPeer) < MaxSent
    /\ onMessage(ws, data)
    /\ UNCHANGED <<isRunning, runState, compareVars, metrics, currentTarget, testHistory, monitoringSessionId,
                   useBackend, wsOpen, loops, summaryLog, toServer, pings, ticks,
                   closed, runId, stopCalls>>

\* ws.on('close') of an open connection
Close(ws) ==
    /\ ws \notin closed
    /\ closed' = closed \cup {ws}
    /\ LET after == onClose([sessions |-> monitoringSessions, timers |-> timers,
                             sent |-> <<>>], ws)
       IN  /\ monitoringSessions' = after.sessions
           /\ timers' = after.timers
    /\ lastOp' = [NoOp EXCEPT !.op = "close", !.ws = ws,
                              !.existed = \E id \in DOMAIN monitoringSessions :
                                              monitoringSessions[id].ws = ws]
    /\ UNCHANGED <<isRunning, runState, compareVars, metrics, currentTarget, testHistory, monitoringSessionId,
                   useBackend, wsOpen, loops, summaryLog, toServer, toBrowser, toPeer,
                   pings, nextTimer, ticks, runId, stopCalls>>

ServerInit ==
    /\ Init
    /\ useBackend
    /\ wsOpen

ServerNext ==
    \/ \E ws \in Connections, data \in ClientMessages : ClientMessage(ws, data)
    \/ \E ws \in Connections : Close(ws)
    \/ \E t \in timers : TimerTick(t)
    \/ \E p \in pings, result \in PingResults : PingDone(p, result)

ServerSpec == ServerInit /\ [][ServerNext]_vars

-----------------------------------------------------------------------------
(* The DNS comparison: compareAllDNS() and POST /api/batch-test *)

\* const dnsServers of compareAllDNS()
ServerNames ==
    <<"8.8.8.8", "1.1.1.1", "9.9.9.9", "208.67.222.222", "94.140.14.14",
      "76.76.19.19", "185.228.168.9">>

\* what one fetch of a comparison loop leaves in its list: the elapsed time,
\* or null when the fetch rejected
PingTimes == {10 * k : k \in 1..MaxPingTime}
FetchOutcomes == {Num(t) : t \in PingTimes} \cup {Null}

\* the numbers of a result entry, as fractions; null stands for itself
Frac(num, den) == [kind |-> "number", num |-> num, den |-> den]
NullFrac == [kind |-> "null", num |-> 0, den |-> 1]
UndefinedFrac == [kind |-> "undefined", num |-> 0, den |-> 1]

\* calculateJitter(times) of server.js
calculateJitterOfTimes(times) ==
    LET validTimes == SelectSeq(times, LAMBDA t : t # Null /\ t # Undefined)
    IN  IF Len(times) < 2 \/ Len(validTimes) < 2 THEN Frac(0, 1)
        ELSE Frac(SumAbsDiff(validTimes), Len(validTimes) - 1)

\* a performHttpPing(host, count) call of the batch at its first fetch;
\* `log` is history: the outcomes of the fetches this call made
pingLoop(server, count) ==
    [server |-> server, count |-> count, i |-> 0, times |-> <<>>, successCount |-> 0,
     log |-> <<>>, pc |-> IF count > 0 THEN "fetch" ELSE "done"]

\* the push of performHttpPing done on the list of the first call, whichever
\* call made the fetch
pingPushShared(calls, k, outcome) ==
    [calls EXCEPT ![1].times = Append(@, outcome),
                  ![k].successCount = IF outcome # Null THEN @ + 1 ELSE @]

\* performHttpPing: times.push(latency); successCount++, or times.push(null),
\* in call k of the batch
pingPush(calls, k, outcome) ==
    [calls EXCEPT ![k].times = Append(@, outcome),
                  ![k].successCount = IF outcome # Null THEN @ + 1 ELSE @]

\* the object performHttpPing returns, spread into the batch result with
\* success: true (min, max, host and the timestamps are left out)
performHttpPing(call) ==
    LET validTimes == SelectSeq(call.times, LAMBDA t : t # Null)
    IN  [server |-> call.server, success |-> TRUE, alive |-> call.successCount > 0,
         times |-> call.times, successCount |-> call.successCount,
         totalCount |-> call.count,
         packetLoss |-> Frac((call.count - call.successCount) * 100, call.count),
         avg |-> IF Len(validTimes) > 0
                 THEN Frac(sumOf(validTimes), Len(validTimes)) ELSE NullFrac,
         jitter |-> calculateJitterOfTimes(validTimes)]

\* processBackendBatchResults(results) up to displayComparisonResults
processBackendBatchResults(results) ==
    LET kept == SelectSeq(results, LAMBDA r : r.success)
    IN  [k \in 1..Len(kept) |->
            [server |-> kept[k].server, avg |-> kept[k].avg, jitter |-> kept[k].jitter,
             successRate |-> Frac(kept[k].successCount * 100, kept[k].totalCount),
             packetLoss |-> kept[k].packetLoss, method |-> "backend"]]

\* the entry fallbackDNSComparison pushes for a server with a valid result
fallbackEntry(server, results) ==
    LET v == validResults(results)
        jitter == calculateJitter(v)
    IN  [server |-> server, avg |-> Frac(sumOf(v), Len(v)),
         jitter |-> Frac(jitter.num, jitter.den),
         successRate |-> Frac(Len(v) * 100, Len(results)),
         packetLoss |-> Frac((Len(results) - Len(v)) * 100, Len(results)),
         method |-> "browser"]

\* a[key]: undefined for a property the entry does not have
keyOf(entry, key) == IF key \in DOMAIN entry THEN entry[key] ELSE UndefinedFrac

\* the sign of x - y in JavaScript: null counts as 0, undefined and 0/0 make NaN
isNaN(x) == x.kind = "undefined" \/ x.den = 0
signOfDifference(x, y) ==
    IF isNaN(x) \/ isNaN(y) THEN "NaN"
    ELSE LET d == x.num * y.den - y.num * x.den
         IN  IF d < 0 THEN "-" ELSE IF d > 0 THEN "+" ELSE "0"

\* the comparator of results.sort in displayComparisonResults
comparator(a, b, key) ==
    IF key = "successRate" THEN signOfDifference(keyOf(b, key), keyOf(a, key))
    ELSE signOfDifference(keyOf(a, key), keyOf(b, key))

\* Array.prototype.sort, stable; a comparator value of NaN counts as 0
RECURSIVE insertByKey(_, _, _)
insertByKey(sorted, x, key) ==
    IF sorted = <<>> THEN <<x>>
    ELSE IF comparator(x, Head(sorted), key) = "-" THEN <<x>> \o sorted
    ELSE <<Head(sorted)>> \o insertByKey(Tail(sorted), x, key)

RECURSIVE sortByKey(_, _)
sortByKey(results, key) ==
    IF results = <<>> THEN <<>>
    ELSE insertByKey(sortByKey(SubSeq(results, 1, Len(results) - 1), key),
                     results[Len(results)], key)

\* displayComparisonResults(results) with this.currentSort = key: what it
\* leaves in this.comparisonResults, whether result.avg.toFixed(2) throws
\* (avg is null), and the winner it shows
displayComparisonResults(results, key) ==
    IF Len(results) = 0
    THEN [results |-> comparisonResults, threw |-> FALSE, winner |-> "none"]
    ELSE LET sorted == sortByKey(results, key)
             throws == \E k \in 1..Len(sorted) : sorted[k].avg.kind # "number"
         IN  [results |-> sorted, threw |-> throws,
              winner |-> IF throws THEN "none" ELSE sorted[1].server]

\* fallbackDNSComparison(dnsServers) at the first fetch of its first server;
\* its fetches carry signal: AbortSignal.timeout(2000)
startFallback(n, count) ==
    [active |-> TRUE, n |-> n, count |-> count, idx |-> 1, i |-> 0,
     testResults |-> <<>>, results |-> <<>>, zero |-> 0, signal |-> TRUE,
     pc |-> "fetch"]

\* NetworkAnalyzer.compareAllDNS() (v1.1) at the first fetch of its first
\* server: the same loop in the browser, its fetches carry no signal
startCompare(n, count) == [startFallback(n, count) EXCEPT !.signal = FALSE]

\* the entry NetworkAnalyzer.compareAllDNS() pushes for a server with a valid
\* result (info, min and max are left out)
compareEntry(server, results) ==
    LET v == validResults(results)
        jitter == calculateJitter(v)
    IN  [server |-> server, avg |-> Frac(sumOf(v), Len(v)),
         jitter |-> Frac(jitter.num, jitter.den),
         successRate |-> Frac(Len(v) * 100, Len(results)),
         p95 |-> percentile(v, 95), p99 |-> percentile(v, 99)]

comparing == batch # <<>> \/ fallback.active

\* compareAllDNS(): the click on Compare. With the backend in use and
\* reachable the server starts one performHttpPing per server, all at once
\* (Promise.all over servers.map); otherwise the fallback starts.
CompareAllDNS(n, count, reachable) ==
    /\ ~comparing
    /\ compares < MaxCompares
    /\ compares' = compares + 1
    /\ IF useBackend /\ reachable
       THEN /\ batch' = [k \in 1..n |-> pingLoop(ServerNames[k], count)]
            /\ UNCHANGED fallback
       ELSE /\ fallback' = startFallback(n, count)
            /\ UNCHANGED batch
    /\ lastOp' = [NoOp EXCEPT !.op = "compareAllDNS", !.requested = n, !.count = count]
    /\ UNCHANGED <<isRunning, runState, currentTarget, testHistory, monitoringSessionId,
                   useBackend, wsOpen, loops, summaryLog, toServer, toBrowser, serverVars, metrics,
                   comparisonResults, currentSort, runId, stopCalls>>

\* NetworkAnalyzer.compareAllDNS(): the click on Compare in v1.1, which has
\* no backend
NetworkAnalyzerCompareAllDNS(n, count) ==
    /\ ~comparing
    /\ ~useBackend
    /\ compares < MaxCompares
    /\ compares' = compares + 1
    /\ fallback' = startCompare(n, count)
    /\ lastOp' = [NoOp EXCEPT !.op = "compareAllDNS", !.requested = n, !.count = count]
    /\ UNCHANGED <<isRunning, runState, currentTarget, testHistory, monitoringSessionId,
                   useBackend, wsOpen, loops, summaryLog, toServer, toBrowser, serverVars, metrics,
                   batch, comparisonResults, currentSort, runId, stopCalls>>

\* the fetch of call k of the batch resolves or rejects; the call goes on to
\* its 200 ms delay
BatchFetchDone(k, outcome) ==
    /\ k \in DOMAIN batch
    /\ batch[k].pc = "fetch"
    /\ batch' = [pingPush(batch, k, outcome) EXCEPT
                    ![k].log = Append(batch[k].log, outcome), ![k].pc = "sleep"]
    /\ lastOp' = [NoOp EXCEPT !.op = "batchFetch", !.run = k]
    /\ UNCHANGED <<isRunning, runState, currentTarget, testHistory, monitoringSessionId,
                   useBackend, wsOpen, loops, summaryLog, toServer, toBrowser, serverVars, metrics,
                   fallback, comparisonResults, currentSort, compares, runId, stopCalls>>

\* the delay of call k ends: i++, then the next fetch or the return
BatchSleepDone(k) ==
    /\ k \in DOMAIN batch
    /\ batch[k].pc = "sleep"
    /\ batch' = [batch EXCEPT ![k].i = @ + 1,
                              ![k].pc = IF batch[k].i + 1 < batch[k].count
                                        THEN "fetch" ELSE "done"]
    /\ lastOp' = [NoOp EXCEPT !.op = "batchSleep", !.run = k]
    /\ UNCHANGED <<isRunning, runState, currentTarget, testHistory, monitoringSessionId,
                   useBackend, wsOpen, loops, summaryLog, toServer, toBrowser, serverVars, metrics,
                   fallback, comparisonResults, currentSort, compares, runId, stopCalls>>

\* every call has returned: Promise.all resolves, res.json(results), and
\* compareAllDNS() goes on with processBackendBatchResults(data.results); an
\* exception of the display is caught and starts the fallback
BackendResults ==
    /\ batch # <<>>
    /\ \A k \in DOMAIN batch : batch[k].pc = "done"
    /\ LET results == [k \in DOMAIN batch |-> performHttpPing(batch[k])]
           processed == processBackendBatchResults(results)
           shown == displayComparisonResults(processed, currentSort)
       IN  /\ comparisonResults' = shown.results
           /\ fallback' = IF shown.threw THEN startFallback(Len(batch), batch[1].count)
                          ELSE fallback
           /\ lastOp' = [NoOp EXCEPT
                            !.op = "backendResults", !.requested = Len(batch),
                            !.zeroSuccess = Cardinality({k \in DOMAIN batch :
                                                            batch[k].successCount = 0}),
                            !.ranked = Len(processed), !.threw = shown.threw,
                            !.winner = shown.winner]
    /\ batch' = <<>>
    /\ UNCHANGED <<isRunning, runState, currentTarget, testHistory, monitoringSessionId,
                   useBackend, wsOpen, loops, summaryLog, toServer, toBrowser, serverVars, metrics,
                   currentSort, compares, runId, stopCalls>>

\* the fetch of the browser's comparison loop resolves or rejects (the abort
\* of its signal rejects it); then await sleep(200)
FallbackFetchDone(outcome) ==
    /\ fallback.active
    /\ fallback.pc = "fetch"
    /\ fallback' = [fallback EXCEPT !.testResults = Append(@, outcome), !.pc = "sleep"]
    /\ lastOp' = [NoOp EXCEPT !.op = "fallbackFetch", !.run = fallback.idx]
    /\ UNCHANGED <<isRunning, runState, currentTarget, testHistory, monitoringSessionId,
                   useBackend, wsOpen, loops, summaryLog, toServer, toBrowser, serverVars, metrics,
                   batch, comparisonResults, currentSort, compares, runId, stopCalls>>

\* the sleep of the fallback ends: the next fetch of this server, or the
\* entry of this server and the first fetch of the next one, or after the
\* last server displayComparisonResults(results)
FallbackSleepDone ==
    /\ fallback.active
    /\ fallback.pc = "sleep"
    /\ IF fallback.i + 1 < fallback.count
       THEN /\ fallback' = [fallback EXCEPT !.i = @ + 1, !.pc = "fetch"]
            /\ lastOp' = [NoOp EXCEPT !.op = "fallbackSleep", !.run = fallback.idx]
            /\ UNCHANGED comparisonResults
       ELSE LET valid == Len(validResults(fallback.testResults)) > 0
                results == IF valid
                           THEN Append(fallback.results,
                                       IF fallback.signal
                                       THEN fallbackEntry(ServerNames[fallback.idx],
                                                          fallback.testResults)
                                       ELSE compareEntry(ServerNames[fallback.idx],
                                                         fallback.testResults))
                           ELSE fallback.results
                zero == IF valid THEN fallback.zero ELSE fallback.zero + 1
                shown == displayComparisonResults(results, currentSort)
            IN  IF fallback.idx < fallback.n
                THEN /\ fallback' = [fallback EXCEPT !.idx = @ + 1, !.i = 0,
                                                     !.testResults = <<>>,
                                                     !.results = results, !.zero = zero,
                                                     !.pc = "fetch"]
                     /\ lastOp' = [NoOp EXCEPT !.op = "fallbackSleep", !.run = fallback.idx]
                     /\ UNCHANGED comparisonResults
                ELSE /\ fallback' = NoFallback
                     /\ comparisonResults' = shown.results
                     /\ lastOp' = [NoOp EXCEPT
                                      !.op = "fallbackResults", !.requested = fallback.n,
                                      !.zeroSuccess = zero, !.ranked = Len(results),
                                      !.threw = shown.threw, !.winner = shown.winner]
    /\ UNCHANGED <<isRunning, runState, currentTarget, testHistory, monitoringSessionId,
                   useBackend, wsOpen, loops, summaryLog, toServer, toBrowser, serverVars, metrics,
                   batch, currentSort, compares, runId, stopCalls>>

\* the argument of sortComparison(key)
SortKeys == {"avg", "jitter", "successRate", "packetLoss", "p95"}

\* sortComparison(key)
SortComparison(key) ==
    /\ IF comparisonResults = <<>>
       THEN /\ UNCHANGED <<comparisonResults, currentSort>>
            /\ lastOp' = [NoOp EXCEPT !.op = "sortComparison", !.kind = key]
       ELSE LET shown == displayComparisonResults(comparisonResults, key)
            IN  /\ currentSort' = key
                /\ comparisonResults' = shown.results
                /\ lastOp' = [NoOp EXCEPT !.op = "sortComparison", !.kind = key,
                                          !.ranked = Len(comparisonResults),
                                          !.threw = shown.threw, !.winner = shown.winner]
    /\ UNCHANGED <<isRunning, runState, currentTarget, testHistory, monitoringSessionId,
                   useBackend, wsOpen, loops, summaryLog, toServer, toBrowser, serverVars, metrics,
                   batch, fallback, compares, runId, stopCalls>>

CompareInit ==
    /\ Init
    /\ ~wsOpen

CompareNext ==
    \/ \E n \in 1..MaxServers, count \in 1..MaxTests, reachable \in BOOLEAN :
          CompareAllDNS(n, count, reachable)
    \/ \E n \in 1..MaxServers, count \in 1..MaxTests : NetworkAnalyzerCompareAllDNS(n, count)
    \/ \E k \in DOMAIN batch, outcome \in FetchOutcomes : BatchFetchDone(k, outcome)
    \/ \E k \in DOMAIN batch : BatchSleepDone(k)
    \/ BackendResults
    \/ \E outcome \in FetchOutcomes : FallbackFetchDone(outcome)
    \/ FallbackSleepDone
    \/ \E key \in SortKeys : SortComparison(key)

CompareSpec == CompareInit /\ [][CompareNext]_vars

\* What the scheduling guarantees: a timer fires (sleep(200), the abort of a
\* fetch that carries a signal, so such a fetch settles) and a settled
\* promise runs its continuation. A fetch without a signal settles only if
\* the transport answers, which nothing guarantees.
TimedSteps ==
    \/ \E k \in DOMAIN batch, outcome \in FetchOutcomes : BatchFetchDone(k, outcome)
    \/ \E k \in DOMAIN batch : BatchSleepDone(k)
    \/ BackendResults
    \/ fallback.signal /\ \E outcome \in FetchOutcomes : FallbackFetchDone(outcome)
    \/ FallbackSleepDone

CompareLiveSpec == CompareInit /\ [][CompareNext]_vars /\ WF_vars(TimedSteps)

-----------------------------------------------------------------------------
(* The statistics of a run: jitter, percentile, quality score and grade *)

\* a run's testResults: latencies and null, in arrival order
SampleValues == {Num(10 * k) : k \in 1..MaxSample} \cup {Null}
ResultsUpTo(n) == UNION {[1..k -> SampleValues] : k \in 0..n}

\* a run of one probe that took no time
BestRun == <<Num(0)>>

\* a run of 20 probes: 18 latencies that alternate between 250 and 350 ms,
\* then two failures
WorstRun == [k \in 1..20 |-> IF k > 18 THEN Null
                             ELSE IF k % 2 = 1 THEN Num(250) ELSE Num(350)]

ResultInputs == ResultsUpTo(MaxSamples) \cup {BestRun, WorstRun}

\* the p of percentile(values, p), in hundredths
Percentages == {0, 50, 95, 99, 100}

\* this.failCount and this.testCount of a run whose testResults is `results`
failCountOf(results) == Len(results) - Len(validResults(results))
testCountOf(results) == Len(results)

\* const validResults = this.testResults.filter(r => r !== null)
StatsInit ==
    /\ Constructed
    /\ ~useBackend
    /\ \E results \in ResultInputs :
          metrics = [NoMetrics EXCEPT !.given = results,
                                      !.values = validResults(results)]

\* the browser computes calculateJitter(validResults)
CalculateJitter ==
    /\ metrics.jitter = Unset
    /\ LET jitter == calculateJitter(metrics.values)
       IN  metrics' = [metrics EXCEPT !.jitter = Frac(jitter.num, jitter.den)]
    /\ UNCHANGED <<isRunning, runState, currentTarget, testHistory, monitoringSessionId,
                   useBackend, wsOpen, loops, summaryLog, toServer, toBrowser, serverVars,
                   compareVars, runId, stopCalls, lastOp>>

\* the server computes calculateJitter(times) of the same latencies
ServerCalculateJitter ==
    /\ metrics.serverJitter = Unset
    /\ metrics' = [metrics EXCEPT !.serverJitter = calculateJitterOfTimes(metrics.values)]
    /\ UNCHANGED <<isRunning, runState, currentTarget, testHistory, monitoringSessionId,
                   useBackend, wsOpen, loops, summaryLog, toServer, toBrowser, serverVars,
                   compareVars, runId, stopCalls, lastOp>>

\* percentile(validResults, p / 100)
Percentile(p) ==
    /\ metrics.p # p \/ metrics.percentile = Unset
    /\ metrics' = [metrics EXCEPT !.p = p,
                                  !.percentile = percentile(metrics.values, p),
                                  !.values = afterPercentile(metrics.values)]
    /\ UNCHANGED <<isRunning, runState, currentTarget, testHistory, monitoringSessionId,
                   useBackend, wsOpen, loops, summaryLog, toServer, toBrowser, serverVars,
                   compareVars, runId, stopCalls, lastOp>>

\* const score = this.calculateQualityScore();
\* const grade = this.getQualityGrade(score)
QualityScore ==
    /\ metrics.grade = "none"
    /\ LET score == calculateQualityScore(metrics.given, failCountOf(metrics.given),
                                          testCountOf(metrics.given))
       IN  metrics' = [metrics EXCEPT !.score = score, !.grade = getQualityGrade(score)]
    /\ UNCHANGED <<isRunning, runState, currentTarget, testHistory, monitoringSessionId,
                   useBackend, wsOpen, loops, summaryLog, toServer, toBrowser, serverVars,
                   compareVars, runId, stopCalls, lastOp>>

StatsNext ==
    \/ CalculateJitter
    \/ ServerCalculateJitter
    \/ \E p \in Percentages : Percentile(p)
    \/ QualityScore

StatsSpec == StatsInit /\ [][StatsNext]_vars

-----------------------------------------------------------------------------
(* The specification *)

Next ==
    \/ \E rawTarget \in TargetInputs, count \in CountInputs, interval \in IntervalInputs,
          continuous \in BOOLEAN, realtime \in BOOLEAN :
          StartTest(rawTarget, count, interval, continuous, realtime)
    \/ StopTest
    \/ \E l \in loops, completion \in Completions :
          \E failed \in transportFailed(completion) : ProbeComplete(l, completion, failed)
    \/ \E l \in loops : WakeUp(l)
    \/ BrowserReceive
    \/ ServerReceive
    \/ \E t \in timers : TimerTick(t)
    \/ \E p \in pings, result \in PingResults : PingDone(p, result)

Spec == Init /\ [][Next]_vars

-----------------------------------------------------------------------------
(* Properties *)

LoopOps == {"probeDone", "wake"}
ResultOps == {"probeDone", "monitoring-update"}
ProbeInFlight == \E l \in loops : l.pc = "probing"

\* C1: in every reachable state successCount + failCount is the number of
\* entries of testResults, whatever the mode and the order of the handlers.
C1_CountsMatchResults == successCount + failCount = Len(testResults)

\* a monitoring update has just been recorded in a run that holds successes
\* and failures
C1_Witness ==
    /\ lastOp.op = "monitoring-update"
    /\ successCount > 0
    /\ failCount > 0

\* C2: after each completed probe testCount is the number of entries of
\* testResults: every attempt, success or failure, records one sample and
\* takes the next sequence number.
C2_SequenceMatchesSamples ==
    (lastOp.op \in ResultOps /\ ~ProbeInFlight) => testCount = Len(testResults)

\* C3: whenever the loss is computed (some valid result exists) it is
\* failCount / (successCount + failCount) * 100, between 0 and 100.
C3_PacketLossOfCumulativeCounts ==
    Len(validResults(testResults)) > 0 =>
        LET loss == packetLoss(failCount, testCount)
        IN  /\ loss.den > 0
            /\ loss.num * (successCount + failCount) = failCount * 100 * loss.den
            /\ 0 <= loss.num
            /\ loss.num <= 100 * loss.den

\* C4, as claimed: a loop dispatches a probe only while the run is running,
\* and no loop begins its inter-probe sleep once the run is stopped.
C4_StopObservedBeforeSleepAndOnWake ==
    /\ (lastOp.op \in LoopOps /\ lastOp.dispatch) => lastOp.wasRunning /\ isRunning
    /\ (lastOp.op = "probeDone" /\ lastOp.slept) => lastOp.wasRunning

\* C4, amended: a loop dispatches a probe only while the run is running: a
\* loop that wakes in a stopped run ends without a probe; and the fixed-count
\* loop (not the continuous one) begins no sleep once the run is stopped.
C4_StopObservedOnWake ==
    /\ (lastOp.op \in LoopOps /\ lastOp.dispatch) => lastOp.wasRunning /\ isRunning
    /\ (lastOp.op = "wake" /\ ~lastOp.wasRunning) =>
            ~lastOp.dispatch /\ ~(\E l \in loops : l.run = lastOp.run)
    /\ (lastOp.op = "probeDone" /\ lastOp.slept /\ lastOp.kind = "limited") =>
            lastOp.wasRunning

\* a loop has just woken in a stopped run
C4_Witness == lastOp.op = "wake" /\ ~lastOp.wasRunning /\ lastOp.kind = "continuous"

\* C5: the run state has one writer loop: once a later run has started, a
\* loop of an earlier run dispatches no probe, records nothing in the run
\* state and does not call stopTest().
C5_SingleWriter ==
    (lastOp.op \in LoopOps /\ lastOp.run # runId) =>
        ~lastOp.dispatch /\ ~lastOp.recorded /\ ~lastOp.stopped

\* C6: a probe result or a monitoring update that arrives while the run is
\* stopped changes none of testResults, successCount, failCount, testCount
\* and chartData.
C6_LateResultDiscarded ==
    [][(lastOp'.op \in ResultOps /\ ~isRunning) => UNCHANGED runState]_vars

\* the state that stopTest() finalizes
finalized == <<isRunning, runState, currentTarget, testHistory, summaryLog,
               monitoringSessionId, toServer, loops>>

\* C7: stopTest() called while the analyzer is Idle changes no state: no
\* further summary is logged and no further history entry is added.
C7_StopIdempotent ==
    [][(lastOp'.op = "stopTest" /\ ~isRunning) => UNCHANGED finalized]_vars

\* the results of a transport that always succeeds with the same latency
SameLatencyEverywhere ==
    /\ testResults # <<>>
    /\ \A k \in 1..Len(testResults) :
            testResults[k].kind = "number" /\ testResults[k] = testResults[1]

\* C8: a fixed-count run of n >= 1 probes that the user does not stop ends by
\* itself: no completed probe ends the loop before it has called stopTest(),
\* and when the loop calls stopTest() exactly n probes were dispatched; after
\* n successes of the same latency successCount = n, failCount = 0, jitter = 0
\* and the loss is 0.
C8_FixedCountTerminates ==
    (lastOp.op = "probeDone" /\ lastOp.kind = "limited" /\ lastOp.wasRunning) =>
        /\ ~lastOp.threw
        /\ lastOp.stopped =>
            /\ ~isRunning
            /\ testCount = lastOp.count
            /\ SameLatencyEverywhere =>
                /\ successCount = lastOp.count
                /\ failCount = 0
                /\ calculateJitter(validResults(testResults)).num = 0
                /\ packetLoss(failCount, testCount).num = 0

\* the arguments start rejects: an empty target, a fixed count below 1, an
\* interval below the minimum of the interval field
InvalidStart(op) ==
    \/ op.target = <<>>
    \/ op.kind = "limited" /\ op.count < MinCount
    \/ op.interval < MinIntervalMs

\* C9: a start with invalid arguments changes no state: the analyzer stays
\* Idle, the previous run is not reset, no probe is dispatched; and the
\* server creates no session for a start-monitoring with such arguments.
C9_InvalidStartChangesNothing ==
    [][/\ (lastOp'.op = "startTest" /\ ~isRunning /\ InvalidStart(lastOp')) =>
            UNCHANGED finalized
       /\ (lastOp'.op = "start-monitoring" /\ InvalidStart(lastOp')) =>
            UNCHANGED <<monitoringSessions, timers>>]_vars

FailedOutcomes == {"null", "throw"}

\* C10: a failing probe of a fixed-count run increments failCount by one,
\* records one failed sample and does not end the loop: the loop goes on
\* to its sleep when probes remain and the run is running.
C10_FailureIsLocal ==
    [][(lastOp'.op = "probeDone" /\ lastOp'.kind = "limited"
            /\ lastOp'.outcome \in FailedOutcomes) =>
            /\ failCount' = failCount + 1
            /\ testResults' = Append(testResults, Null)
            /\ ~lastOp'.threw
            /\ lastOp'.slept \/ lastOp'.stopped \/ ~isRunning]_vars

\* C11: a probe whose transport call failed or was aborted, before or at the
\* timeout, is recorded as a failure: failCount grows by one, a failed sample
\* is appended and no number joins the successful latencies.
C11_FailedProbeHasNoLatency ==
    [][(lastOp'.op = "probeDone" /\ lastOp'.failed) =>
            /\ lastOp'.outcome = "throw"
            /\ successCount' = successCount
            /\ failCount' = failCount + 1
            /\ testResults' = Append(testResults, Null)]_vars

\* a run in which no probe has succeeded
everyProbeFailed == successCount = 0 /\ (testCount > 0 \/ failCount > 0)

\* C12: while every probe of a run has failed, no handler ends in an
\* exception, the summary is the no-data text, the percentiles are the NaN
\* sentinel and the quality score is 0; a fixed-count loop that ends leaves
\* the analyzer Idle, and a stop logs the no-data summary.
C12_AllFailedRunWellDefined ==
    everyProbeFailed =>
        /\ ~lastOp.threw
        /\ generateSummary(testResults, failCount, testCount) = NoValidResults
        /\ percentile(validResults(testResults), 95).kind = "NaN"
        /\ percentile(validResults(testResults), 99).kind = "NaN"
        /\ calculateQualityScore(testResults, failCount, testCount) = Num(0)
        /\ (lastOp.op = "probeDone" /\ lastOp.kind = "limited" /\ ~lastOp.slept) =>
                ~isRunning
        /\ lastOp.stopped =>
                ~isRunning /\ summaryLog[Len(summaryLog)] = NoValidResults

\* a fixed-count run of two probes has ended by itself after two failures
C12_Witness ==
    /\ lastOp.op = "probeDone"
    /\ lastOp.stopped
    /\ lastOp.count = 2
    /\ failCount = 2
    /\ successCount = 0

\* the handles of the live interval timers
liveHandles == {t.id : t \in timers}

\* C13: the registry holds one session per id (it is a map), each
\* registered session has exactly one live interval timer, every live timer is
\* the timer of a registered session; and a start-monitoring with a host and
\* an id leaves that id registered once, with the host of this start.
C13_RegistryMatchesTimers ==
    /\ \A id \in DOMAIN monitoringSessions :
            Cardinality({t \in timers : t.sessionId = id}) = 1
    /\ \A t \in timers :
            /\ t.sessionId \in DOMAIN monitoringSessions
            /\ monitoringSessions[t.sessionId].interval = t.id
            /\ monitoringSessions[t.sessionId].host = t.host
    /\ Cardinality(liveHandles) = Cardinality(timers)
    /\ (lastOp.op = "start-monitoring" /\ lastOp.target # <<>> /\ lastOp.run # NoSession) =>
            /\ lastOp.run \in DOMAIN monitoringSessions
            /\ monitoringSessions[lastOp.run].host = lastOp.target
            /\ monitoringSessions[lastOp.run].ws = lastOp.ws

\* a session was started with an id that was registered, and its host is
\* the second one
C13_Witness ==
    /\ lastOp.op = "start-monitoring"
    /\ lastOp.existed
    /\ lastOp.target = <<"h">>
    /\ \E t \in timers : t.host = <<"h">> /\ t.id > 1

\* C14: the update of a probe is sent only while the timer whose callback
\* started the probe is live: no probe of a stopped or restarted session is
\* observed.
C14_NoResidualProbe ==
    lastOp.op = "pingDone" => lastOp.timer \in liveHandles

\* C15: after the close handler of a connection the registry holds no
\* session of that connection and no live timer is one of its timers, and
\* the sessions and timers of the other connections are as before.
C15_CloseStopsSessions ==
    [][lastOp'.op = "close" =>
            /\ \A id \in DOMAIN monitoringSessions' :
                    monitoringSessions'[id].ws # lastOp'.ws
            /\ \A t \in timers' : t.ws # lastOp'.ws
            /\ \A id \in DOMAIN monitoringSessions :
                    monitoringSessions[id].ws # lastOp'.ws =>
                        /\ id \in DOMAIN monitoringSessions'
                        /\ monitoringSessions'[id] = monitoringSessions[id]
            /\ \A t \in timers : t.ws # lastOp'.ws => t \in timers']_vars

\* a connection that held a session has closed while the other connection
\* holds one
C15_Witness ==
    /\ lastOp.op = "close"
    /\ lastOp.existed
    /\ Cardinality(timers) = 1
    /\ Cardinality(DOMAIN monitoringSessions) = 1

\* C16: stop-monitoring for an id that is not registered changes neither
\* the registry nor the timers and sends no message.
C16_StopAbsentIsNoOp ==
    [][(lastOp'.op = "stop-monitoring" /\ ~lastOp'.existed) =>
            UNCHANGED <<monitoringSessions, timers, toBrowser, toPeer, pings>>]_vars

\* a stop-monitoring for an unregistered id has run while a session of
\* another id is registered
C16_Witness ==
    /\ lastOp.op = "stop-monitoring"
    /\ ~lastOp.existed
    /\ lastOp.run # NoSession
    /\ monitoringSessions # <<>>

\* the handlers that end a comparison with displayComparisonResults
ComparisonEnds == {"backendResults", "fallbackResults"}

\* C17: the ranked results of a comparison hold no target with zero
\* successful samples: they are the requested targets less those with no
\* success (the number the caller is to be told), on the backend path and on
\* the fallback path.
C17_ZeroSuccessExcluded ==
    /\ \A k \in 1..Len(comparisonResults) : comparisonResults[k].successRate.num > 0
    /\ lastOp.op \in ComparisonEnds => lastOp.ranked = lastOp.requested - lastOp.zeroSuccess

\* a <= b for the sort key in JavaScript: false when either side is undefined
inOrder(a, b, key) == comparator(a, b, key) \in {"-", "0"}

\* C18: after a display of results that are not empty, for each of the five
\* sort keys the results are in non-decreasing order of the key (non-increasing
\* for successRate) and the winner shown is the entry at rank 0.
C18_SortedByKeyWinnerFirst ==
    (lastOp.op \in ComparisonEnds \cup {"sortComparison"} /\ lastOp.ranked > 0) =>
        /\ \A k \in 1..(Len(comparisonResults) - 1) :
                inOrder(comparisonResults[k], comparisonResults[k + 1], currentSort)
        /\ lastOp.winner = comparisonResults[1].server

\* the performHttpPing calls of the batch that have not returned
running == {k \in DOMAIN batch : batch[k].pc # "done"}

\* C19: with more than one target requested, the per-target probe loops
\* running at the same time are fewer than the targets: some bound below the
\* number of targets limits them.
C19_BoundedConcurrency ==
    Len(batch) > 1 => Cardinality(running) < Len(batch)

\* C20: in a batch each call's times are the outcomes of its own fetches,
\* in order, its successCount counts the successful ones, a call that has
\* returned holds exactly testsPerServer of them, and the calls are one per
\* requested server, in the order of the request, whichever finishes first.
C20_IsolatedRunState ==
    \A k \in DOMAIN batch :
        /\ batch[k].server = ServerNames[k]
        /\ batch[k].times = batch[k].log
        /\ batch[k].successCount = Len(SelectSeq(batch[k].times, LAMBDA t : t # Null))
        /\ batch[k].pc = "done" => Len(batch[k].times) = batch[k].count
        /\ performHttpPing(batch[k]).times = batch[k].log

\* both calls of a batch of two have returned, the second one first, with
\* different outcomes
C20_Witness ==
    /\ Len(batch) = 2
    /\ \A k \in DOMAIN batch : batch[k].pc = "done"
    /\ batch[1].times # batch[2].times
    /\ batch[1].count = 2
    /\ lastOp.op = "batchSleep"
    /\ lastOp.run = 1

\* probe i of server idx of the browser's comparison loop is awaiting its fetch
probeDispatched(idx, i) ==
    fallback.active /\ fallback.pc = "fetch" /\ fallback.idx = idx /\ fallback.i = i

\* call k of the batch is awaiting fetch i
batchProbeDispatched(k, i) ==
    k \in DOMAIN batch /\ batch[k].pc = "fetch" /\ batch[k].i = i

\* C21: every dispatched probe eventually completes, with a latency or with a
\* failure, whether or not the transport answers, so no probe blocks the loop
\* of its comparison for ever.
C21_EveryProbeCompletes ==
    /\ \A idx \in 1..MaxServers, i \in 0..(MaxTests - 1) :
          probeDispatched(idx, i) ~> ~probeDispatched(idx, i)
    /\ \A k \in 1..MaxServers, i \in 0..(MaxTests - 1) :
          batchProbeDispatched(k, i) ~> ~batchProbeDispatched(k, i)

\* the successful latencies of the run, in arrival order
arrived == validResults(metrics.given)

\* |S[2] - S[1]| + ... + |S[i] - S[i-1]|
RECURSIVE absDiffsUpTo(_, _)
absDiffsUpTo(S, i) ==
    IF i < 2 THEN 0 ELSE Abs(S[i].v - S[i - 1].v) + absDiffsUpTo(S, i - 1)

\* the fraction j is the mean absolute difference of consecutive samples of S
isJitterOf(j, S) ==
    /\ j.kind = "number"
    /\ j.den > 0
    /\ IF Len(S) < 2 THEN j.num = 0
       ELSE j.num * (Len(S) - 1) = j.den * absDiffsUpTo(S, Len(S))

\* C22: the jitter of a sequence S of successful latencies is the mean of
\* |S[i] - S[i-1]| over i = 2..|S|, in arrival order, and 0 when |S| < 2;
\* the jitter of [10, 50, 10] is 40; the browser's and the server's
\* calculateJitter give the same value for every S.
C22_JitterIsMeanAbsoluteDifference ==
    /\ metrics.jitter # Unset => isJitterOf(metrics.jitter, arrived)
    /\ metrics.serverJitter # Unset => isJitterOf(metrics.serverJitter, arrived)
    /\ (metrics.jitter # Unset /\ metrics.serverJitter # Unset) =>
          metrics.jitter.num * metrics.serverJitter.den
             = metrics.serverJitter.num * metrics.jitter.den
    /\ (metrics.jitter # Unset /\ arrived = <<Num(10), Num(50), Num(10)>>) =>
          metrics.jitter.num = 40 * metrics.jitter.den

C22_Witness ==
    /\ arrived = <<Num(10), Num(50), Num(10)>>
    /\ metrics.jitter # Unset
    /\ metrics.serverJitter # Unset
    /\ metrics.jitter.num = 40 * metrics.jitter.den
    /\ metrics.percentile # Unset

\* the k-th smallest sample of S
kthSmallest(S, k) ==
    S[CHOOSE i \in DOMAIN S :
        /\ Cardinality({j \in DOMAIN S : S[j].v < S[i].v}) < k
        /\ k <= Cardinality({j \in DOMAIN S : S[j].v <= S[i].v})].v

\* 100 times the value at index (|S| - 1) * p / 100 of S sorted ascending,
\* with linear interpolation between the two neighbours
interpolated(S, p) ==
    LET idx == (Len(S) - 1) * p
        lo == idx \div 100
        hi == IF idx % 100 = 0 THEN lo ELSE lo + 1
    IN  100 * kthSmallest(S, lo + 1)
           + (kthSmallest(S, hi + 1) - kthSmallest(S, lo + 1)) * (idx - 100 * lo)

\* C23: for a non-empty S and p in [0, 1], percentile(S, p) sorts a copy of S
\* ascending, takes idx = (|S| - 1) * p and interpolates linearly between the
\* neighbours of idx; the result lies between min(S) and max(S) and S is
\* left as it was; percentile([10, 20, 30, 40], 0.5) = 25 and
\* percentile([10], 0.95) = 10.
C23_PercentileInterpolates ==
    (metrics.percentile # Unset /\ arrived # <<>>) =>
        LET r == metrics.percentile
        IN  /\ r.kind = "number"
            /\ r.den > 0
            /\ r.num * 100 = r.den * interpolated(arrived, metrics.p)
            /\ \E i \in DOMAIN arrived : arrived[i].v * r.den <= r.num
            /\ \E i \in DOMAIN arrived : r.num <= arrived[i].v * r.den
            /\ metrics.values = arrived
            /\ (sortAscending(arrived) = <<Num(10), Num(20), Num(30), Num(40)>>
                   /\ metrics.p = 50) => r.num = 25 * r.den
            /\ (arrived = <<Num(10)>> /\ metrics.p = 95) => r.num = 10 * r.den

C23_Witness ==
    /\ metrics.given = <<Num(40), Num(10), Num(30), Num(20)>>
    /\ metrics.p = 50
    /\ metrics.percentile # Unset
    /\ metrics.percentile.num = 25 * metrics.percentile.den
    /\ metrics.values = metrics.given

\* the inputs of the score formula for a run: avg, jitter and loss percentage
avgOf(results) ==
    [num |-> sumOf(validResults(results)), den |-> Len(validResults(results))]
jitterOf(results) ==
    LET S == validResults(results)
    IN  IF Len(S) < 2 THEN [num |-> 0, den |-> 1]
        ELSE [num |-> absDiffsUpTo(S, Len(S)), den |-> Len(S) - 1]
lossOf(results) == [num |-> 100 * failCountOf(results), den |-> testCountOf(results)]

\* min(num / (scale * den), 1) in lowest terms
normalised(x, scale) ==
    IF x.num >= scale * x.den THEN [num |-> 1, den |-> 1]
    ELSE [num |-> x.num \div GCD(x.num, scale * x.den),
          den |-> (scale * x.den) \div GCD(x.num, scale * x.den)]

\* s = round(100 * (1 - (0.60 * L + 0.25 * J + 0.15 * P))): s is the integer
\* with s - 1/2 <= the value < s + 1/2
isRoundedScore(s, avg, jitter, loss) ==
    LET L == normalised(avg, 300)
        J == normalised(jitter, 100)
        P == normalised(loss, 10)
        D == L.den * J.den * P.den
        X == 100 * D - 60 * L.num * J.den * P.den - 25 * J.num * L.den * P.den
                     - 15 * P.num * L.den * J.den
    IN  (2 * s - 1) * D <= 2 * X /\ 2 * X < (2 * s + 1) * D

\* sample points of avg (ms), jitter (ms) and loss (%)
AvgPoints == {0, 30, 150, 300, 450}
JitterPoints == {0, 20, 100, 150}
LossPoints == {0, 5, 10, 100}

atLeast(x, n) == x.num <= n * x.den
atMost(x, n) == x.num >= n * x.den

GradeScores ==
    [g \in {"A+", "A", "B", "C", "D", "F"} |->
        CASE g = "A+" -> 95..100
          [] g = "A" -> 90..94
          [] g = "B" -> 75..89
          [] g = "C" -> 60..74
          [] g = "D" -> 40..59
          [] g = "F" -> 0..39]

\* C25: an integer score in 0..100 has exactly one grade: 95..100 is A+,
\* 90..94 is A, 75..89 is B, 60..74 is C, 40..59 is D and 0..39 is F.
C25_GradeBuckets ==
    /\ (metrics.grade # "none" /\ metrics.score.kind = "number") =>
          /\ metrics.grade \in DOMAIN GradeScores
          /\ metrics.score.v \in GradeScores[metrics.grade]
    /\ metrics.grade # "none" =>
          \A s \in 0..100 : s \in GradeScores[getQualityGrade(Num(s))]

C25_Witness ==
    /\ metrics.given = <<Num(50)>>
    /\ metrics.score = Num(90)
    /\ metrics.grade = "A"

\* the last n entries of a sequence
lastOf(seq, n) == SubSeq(seq, Len(seq) - n + 1, Len(seq))

\* C26: chartData never holds more than maxDataPoints entries, holds only
\* successful latencies, and is the most recent
\* min(maxDataPoints, number of successes) successful latencies of the run, in
\* arrival order.
C26_ChartIsWindowOfSuccesses ==
    LET successes == validResults(testResults)
        n == IF Len(successes) < maxDataPoints THEN Len(successes) ELSE maxDataPoints
    IN  /\ Len(chartData) <= maxDataPoints
        /\ \A i \in DOMAIN chartData : chartData[i].y.kind = "number"
        /\ [i \in DOMAIN chartData |-> chartData[i].y] = lastOf(successes, n)

\* the place of a server in dnsServers
serverIndex(name) == CHOOSE i \in DOMAIN ServerNames : ServerNames[i] = name

\* the entries of results in the order the comparison produced them: the
\* order of dnsServers
arrivalOrder(results) ==
    [i \in DOMAIN results |->
        results[CHOOSE j \in DOMAIN results :
                   Cardinality({m \in DOMAIN results :
                                   serverIndex(results[m].server)
                                      <= serverIndex(results[j].server)}) = i]]

\* the ranking sortComparison(key) shows when it is the first sort after the
\* comparison displayed its results under the initial sort key
firstRanking(results, key) == sortByKey(sortByKey(arrivalOrder(results), "avg"), key)

entriesOf(results) == {results[i] : i \in DOMAIN results}

\* C27: the ranking shown for a sort key depends only on the result set and
\* the key, whatever keys were applied before and however entries tie on the
\* key; a re-sort adds, removes and alters no entry and dispatches no probe.
C27_RankingIndependentOfHistory ==
    [][(lastOp'.op = "sortComparison" /\ comparisonResults # <<>>) =>
          /\ comparisonResults' = firstRanking(comparisonResults, lastOp'.kind)
          /\ entriesOf(comparisonResults') = entriesOf(comparisonResults)
          /\ Len(comparisonResults') = Len(comparisonResults)
          /\ UNCHANGED <<batch, fallback>>]_vars

\* C28: a monitoring session never has two probes in flight at once, and its
\* updates are delivered in the order its probes were dispatched.
C28_OneProbeInFlightPerSession ==
    /\ \A p, q \in pings : p.timer = q.timer => p = q
    /\ lastOp.op = "pingDone" =>
          \A q \in pings : q.timer = lastOp.timer => q.tick > lastOp.count

\* C29: a start-monitoring or stop-monitoring for the sessionId of a session
\* another connection created neither stops nor replaces that session, and
\* monitoring-stopped goes to the connection that created the session.
C29_SessionOwnedByCreator ==
    [][(lastOp'.op \in {"start-monitoring", "stop-monitoring"} /\ lastOp'.existed) =>
          LET id == lastOp'.run
              owner == monitoringSessions[id].ws
          IN  /\ owner # lastOp'.ws =>
                    /\ id \in DOMAIN monitoringSessions'
                    /\ monitoringSessions'[id] = monitoringSessions[id]
                    /\ timers' = timers
              /\ id \notin DOMAIN monitoringSessions' =>
                    /\ owner = lastOp'.ws
                    /\ IF owner = "browser"
                       THEN Len(toBrowser') = Len(toBrowser) + 1
                       ELSE Len(toPeer') = Len(toPeer) + 1]_vars

\* C30: startTest() while a run is on changes nothing: testResults,
\* chartData, the counters and the target stay as they are, no second loop
\* starts, and the run goes on.
C30_StartWhileRunningIsNoOp ==
    [][(lastOp'.op = "startTest" /\ isRunning) =>
          UNCHANGED <<isRunning, runState, currentTarget, loops, testHistory, summaryLog,
                      monitoringSessionId, toServer, runId>>]_vars

C30_Witness ==
    /\ lastOp.op = "startTest"
    /\ lastOp.wasRunning
    /\ isRunning
    /\ testResults # <<>>
    /\ \E l \in loops : l.run = runId

====
